---- MODULE Spec2Model ----
(***************************************************************************)
(* Model of toc_generator.py: run() walks the selected markdown files and  *)
(* generate_toc() validates each document, scans its headings, builds the  *)
(* anchors and rewrites the file in place.                                 *)
(*                                                                         *)
(* A character is a one-element string, a Python str is a sequence of      *)
(* characters, a file's content is one such sequence.  Python indices are  *)
(* kept 0-based in every stored value (first_header_index, to_remove,      *)
(* last_underscore_i); s[i] of the code is s[i + 1] here.                  *)
(***************************************************************************)
EXTENDS Integers, Sequences, FiniteSets, TLC

VARIABLES
  files,    \* filename -> content of each selected markdown file (lines 33-34)
  pc,       \* where run() stands: idle, loop, done, warned, crashed (17-29)
  pending,  \* the filenames the loop of line 26 has still to visit
  outcome,  \* filename -> what generate_toc did with it in this run
  call,     \* the last call of generate_toc: filename, result, locals
  orig,     \* the files before the first run
  before,   \* the files as the current run found them
  runs      \* how many times the script was started

vars == <<files, pc, pending, outcome, call, orig, before, runs>>

-----------------------------------------------------------------------------
(* Bounds of the model *)

MaxLines == 3

MaxLabelLen == 4

MaxRuns == 2

-----------------------------------------------------------------------------
(* Characters *)

NL == "\n"

\* U+0130 (capital I with dot above): the one alphanumeric code point whose
\* str.lower() is two code points, "i" followed by U+0307.
IDOT == "U+0130"

CDOT == "U+0307"

\* the backtick, U+0060 (a string of the module cannot hold it)
BACKTICK == "U+0060"

UpperChars == {"A", "B", "D", "O", "T", "X"}

LowerChars == {"a", "b", "d", "l", "o", "t", "x", "i"}

isalnum(c) == c \in UpperChars \cup LowerChars \cup {IDOT}

\* str.lower() of one character, as a str
lower(c) ==
  CASE c = "A" -> <<"a">>
    [] c = "B" -> <<"b">>
    [] c = "D" -> <<"d">>
    [] c = "O" -> <<"o">>
    [] c = "T" -> <<"t">>
    [] c = "X" -> <<"x">>
    [] c = IDOT -> <<"i", CDOT>>
    [] OTHER -> <<c>>

-----------------------------------------------------------------------------
(* Python str operations used by generate_toc *)

startswith(s, p) == Len(s) >= Len(p) /\ SubSeq(s, 1, Len(p)) = p

\* s[i:] with a 0-based i
SliceFrom(s, i) == SubSeq(s, i + 1, Len(s))

RECURSIVE join(_)
join(ss) == IF ss = <<>> THEN <<>> ELSE Head(ss) \o join(Tail(ss))

\* str.splitlines(True): the lines with their terminator kept; a last line
\* without terminator is a line too, an empty str has no line.
RECURSIVE SplitFrom(_, _, _)
SplitFrom(s, i, cur) ==
  IF i > Len(s) THEN (IF cur = <<>> THEN <<>> ELSE <<cur>>)
  ELSE IF s[i] = NL THEN <<Append(cur, NL)>> \o SplitFrom(s, i + 1, <<>>)
  ELSE SplitFrom(s, i + 1, Append(cur, s[i]))

splitlines(s) == SplitFrom(s, 1, <<>>)

RECURSIVE lstrip(_, _)
lstrip(s, cs) ==
  IF s # <<>> /\ Head(s) \in cs THEN lstrip(Tail(s), cs) ELSE s

RECURSIVE rstrip(_, _)
rstrip(s, cs) ==
  IF s # <<>> /\ s[Len(s)] \in cs THEN rstrip(SubSeq(s, 1, Len(s) - 1), cs) ELSE s

strip(s, cs) == rstrip(lstrip(s, cs), cs)

\* LVL2_HEADING_PATTERN.match(line): "##" at position 0, not followed by "#"
LVL2_HEADING_PATTERN_match(line) ==
  /\ startswith(line, <<"#", "#">>)
  /\ (Len(line) = 2 \/ line[3] # "#")

FENCE == <<BACKTICK, BACKTICK, BACKTICK>>

LVL7 == <<"#", "#", "#", "#", "#", "#", "#">>

-----------------------------------------------------------------------------
(* Anchor generator: lines 88-123.  anchor_list is a Python list of strs,  *)
(* one element per appended character (lower() of U+0130 is one element of *)
(* two code points); the anchor is its join.                               *)

\* del anchor_list[i]
DelAt(l, i) == SubSeq(l, 1, i) \o SubSeq(l, i + 2, Len(l))

AnchorInit ==
  [anchor_list |-> <<>>, last_underscore_i |-> -1, to_remove |-> <<>>,
   inline_code |-> FALSE]

\* AnchorStep without the .lower() of line 119
AnchorStep_NoLower(line, i, st) ==
  LET c == line[i + 1] IN
  IF c = " " \/ c = "-" THEN
    [st EXCEPT !.anchor_list = Append(@, <<"-">>)]
  ELSE IF c = BACKTICK THEN
    [st EXCEPT !.inline_code = ~@]
  ELSE IF c = "_" THEN
    IF ~st.inline_code THEN
      IF st.last_underscore_i = -1 THEN
        [st EXCEPT !.last_underscore_i = i, !.anchor_list = Append(@, <<"_">>)]
      ELSE
        [st EXCEPT !.to_remove = Append(@, st.last_underscore_i),
                   !.last_underscore_i = -1]
    ELSE
      [st EXCEPT !.anchor_list = Append(@, <<"_">>)]
  ELSE IF isalnum(c) THEN
    [st EXCEPT !.anchor_list = Append(@, <<c>>)]
  ELSE st

\* one iteration of "for i in range(0, len(line))"
AnchorStep(line, i, st) ==
  LET c == line[i + 1] IN
  IF c = " " \/ c = "-" THEN
    [st EXCEPT !.anchor_list = Append(@, <<"-">>)]
  ELSE IF c = BACKTICK THEN
    [st EXCEPT !.inline_code = ~@]
  ELSE IF c = "_" THEN
    IF ~st.inline_code THEN
      IF st.last_underscore_i = -1 THEN
        [st EXCEPT !.last_underscore_i = i, !.anchor_list = Append(@, <<"_">>)]
      ELSE
        [st EXCEPT !.to_remove = Append(@, st.last_underscore_i),
                   !.last_underscore_i = -1]
    ELSE
      [st EXCEPT !.anchor_list = Append(@, <<"_">>)]
  ELSE IF isalnum(c) THEN
    [st EXCEPT !.anchor_list = Append(@, lower(c))]
  ELSE st

RECURSIVE AnchorLoop(_, _, _)
AnchorLoop(line, i, st) ==
  IF i >= Len(line) THEN st ELSE AnchorLoop(line, i + 1, AnchorStep(line, i, st))

\* "for i in to_remove: del anchor_list[i]"; an index past the end raises
\* IndexError (ok = FALSE).
RECURSIVE RemoveMarked(_, _)
RemoveMarked(anchor_list, to_remove) ==
  IF to_remove = <<>> THEN [ok |-> TRUE, anchor_list |-> anchor_list]
  ELSE IF Head(to_remove) >= Len(anchor_list)
       THEN [ok |-> FALSE, anchor_list |-> anchor_list]
       ELSE RemoveMarked(DelAt(anchor_list, Head(to_remove)), Tail(to_remove))

\* the anchor of a label: ok = FALSE when "del" raised IndexError, else
\* anchor = ''.join(anchor_list)
Anchor(line) ==
  LET st == AnchorLoop(line, 0, AnchorInit)
      r == RemoveMarked(st.anchor_list, st.to_remove)
  IN [ok |-> r.ok, anchor |-> join(r.anchor_list)]

-----------------------------------------------------------------------------
(* Document validator: lines 36-52 *)

\* "for i in range(1, len(content_lines))": the index of the first level-2
\* heading, -1 when there is none, -2 when another line starting with "#"
\* comes first (the "another header" return).
RECURSIVE FirstHeaderFrom(_, _)
FirstHeaderFrom(content_lines, i) ==
  IF i >= Len(content_lines) THEN -1
  ELSE IF LVL2_HEADING_PATTERN_match(content_lines[i + 1]) THEN i
  ELSE IF startswith(content_lines[i + 1], <<"#">>) THEN -2
  ELSE FirstHeaderFrom(content_lines, i + 1)

-----------------------------------------------------------------------------
(* Heading scanner: lines 54-126 *)

\* "for i in range(2, len(line))": four spaces per "#" from index 2 on
RECURSIVE Indentation(_, _)
Indentation(line, i) ==
  IF i < Len(line) /\ line[i + 1] = "#"
  THEN <<" ", " ", " ", " ">> \o Indentation(line, i + 1)
  ELSE <<>>

ScanInit == [toc_str |-> <<>>, code_block |-> FALSE, ok |-> TRUE, headings |-> <<>>]

\* lines 76-126: the entry of one heading line, k the line's index.  headings
\* records each emitted entry (index, label, anchor); the IndexError of the
\* anchor's "del" ends the scan (ok = FALSE).
EmitHeading(line, k, st) ==
  LET indent == Indentation(line, 2)
      label == strip(lstrip(line, {"#"}), {" ", NL})
      a == Anchor(label)
  IN IF ~a.ok THEN [st EXCEPT !.ok = FALSE]
     ELSE [st EXCEPT
             !.toc_str = @ \o indent \o <<"*", " ", "[">> \o label \o <<"]">>
                           \o <<"(", "#">> \o a.anchor \o <<")", NL>>,
             !.headings = Append(@, [index |-> k, label |-> label,
                                     anchor |-> a.anchor])]

\* ScanStep without the "if code_block: continue" of lines 73-74
ScanStep_NoCodeBlockCheck(line, k, st) ==
  IF startswith(line, FENCE) THEN
    [st EXCEPT !.code_block = ~@]
  ELSE IF startswith(line, <<"#">>) THEN
    IF startswith(line, LVL7) THEN st
    ELSE EmitHeading(line, k, st)
  ELSE st

\* one iteration of "for line in content_lines[1:]": lines 56-126
ScanStep(line, k, st) ==
  IF startswith(line, FENCE) THEN
    [st EXCEPT !.code_block = ~@]
  ELSE IF startswith(line, <<"#">>) THEN
    IF startswith(line, LVL7) THEN st
    ELSE IF st.code_block THEN st
    ELSE EmitHeading(line, k, st)
  ELSE st

RECURSIVE ScanFrom(_, _, _)
ScanFrom(content_lines, k, st) ==
  IF k >= Len(content_lines) \/ ~st.ok THEN st
  ELSE ScanFrom(content_lines, k + 1, ScanStep(content_lines[k + 1], k, st))

Scan(content_lines) == ScanFrom(content_lines, 1, ScanInit)

-----------------------------------------------------------------------------
(* File object opened with mode "r+" *)

\* file.write(s) at position pos: overwrites, extends at the end
FileWrite(content, pos, s) ==
  SubSeq(content, 1, pos) \o s \o SubSeq(content, pos + Len(s) + 1, Len(content))

\* the file without the truncate() of line 135
FileTruncate_Missing(content, pos) == content

\* file.truncate() at position pos
FileTruncate(content, pos) == SubSeq(content, 1, pos)

\* os.linesep (POSIX)
os_linesep == <<NL>>

-----------------------------------------------------------------------------
(* generate_toc: lines 32-136, on the content of the file *)

NoLocals ==
  [content_lines |-> <<>>, first_header_index |-> -1, toc_str |-> <<>>,
   headings |-> <<>>]

\* [result, content, locals]: result is "IndexError" (uncaught), one of the
\* three warnings, or "updated"; content is the file's content afterwards.
generate_toc(content) ==
  LET content_lines == splitlines(content)
      loc0 == [NoLocals EXCEPT !.content_lines = content_lines]
      first_header_index == FirstHeaderFrom(content_lines, 1)
      loc1 == [loc0 EXCEPT !.first_header_index = IF first_header_index = -2 THEN -1
                                                  ELSE first_header_index]
      sc == Scan(content_lines)
      loc2 == [loc1 EXCEPT !.toc_str = sc.toc_str, !.headings = sc.headings]
      content_with_toc ==
        content_lines[1] \o sc.toc_str \o os_linesep
          \o join(SliceFrom(content_lines, first_header_index))
      written == FileTruncate(FileWrite(content, 0, content_with_toc),
                              Len(content_with_toc))
  IN
  IF content_lines = <<>> THEN
    [result |-> "IndexError", content |-> content, locals |-> loc0]
  ELSE IF ~startswith(content_lines[1], <<"#">>) THEN
    [result |-> "no_header", content |-> content, locals |-> loc0]
  ELSE IF first_header_index = -2 THEN
    [result |-> "another_header", content |-> content, locals |-> loc1]
  ELSE IF first_header_index = -1 THEN
    [result |-> "no_lvl2", content |-> content, locals |-> loc1]
  ELSE IF ~sc.ok THEN
    [result |-> "IndexError", content |-> content, locals |-> loc2]
  ELSE
    [result |-> "updated", content |-> written, locals |-> loc2]

-----------------------------------------------------------------------------
(* run: lines 17-29 *)

Names == {"a.md", "b.md"}

\* get_filenames(): the selected markdown files
get_filenames == DOMAIN files

NoCall == [filename |-> "", result |-> "none", locals |-> NoLocals]

\* The script is started: lines 18-24, up to the loop.  before keeps the
\* files as this run found them; no local of an earlier process survives.
Main ==
  /\ pc \in {"idle", "done", "warned"}
  /\ runs < MaxRuns
  /\ runs' = runs + 1
  /\ before' = files
  /\ outcome' = [f \in DOMAIN files |-> "none"]
  /\ IF get_filenames = {}
     THEN pc' = "warned" /\ pending' = {}
     ELSE pc' = "loop" /\ pending' = get_filenames
  /\ call' = NoCall
  /\ UNCHANGED <<files, orig>>

\* One iteration of "for filename in filenames" (a set: any order); an
\* IndexError is not caught and ends the process.
GenerateToc(filename) ==
  /\ pc = "loop"
  /\ filename \in pending
  /\ LET r == generate_toc(files[filename]) IN
       /\ files' = [files EXCEPT ![filename] = r.content]
       /\ outcome' = [outcome EXCEPT ![filename] = r.result]
       /\ call' = [filename |-> filename, result |-> r.result, locals |-> r.locals]
       /\ IF r.result = "IndexError"
          THEN pc' = "crashed" /\ pending' = pending
          ELSE pc' = "loop" /\ pending' = pending \ {filename}
  /\ UNCHANGED <<orig, before, runs>>

\* The loop is over: line 29
Done ==
  /\ pc = "loop"
  /\ pending = {}
  /\ pc' = "done"
  /\ UNCHANGED <<files, pending, outcome, call, orig, before, runs>>

Next ==
  \/ Main
  \/ \E filename \in Names : GenerateToc(filename)
  \/ Done

InitWith(fs) ==
  /\ files = fs
  /\ orig = fs
  /\ before = fs
  /\ pc = "idle"
  /\ pending = {}
  /\ outcome = [f \in DOMAIN fs |-> "none"]
  /\ call = NoCall
  /\ runs = 0

-----------------------------------------------------------------------------
(* Documents *)

Str(n, S) == UNION {[1..k -> S] : k \in 0..n}

TITLE1 == <<"#", " ", "T", NL>>

TitlePool == {TITLE1, <<"T", NL>>, <<"#", "#", " ", "T", NL>>}

OLDTOC == <<"*", " ", "[", "O", "l", "d", "]", "(", "#", "o", "l", "d", ")", NL>>

LinePool ==
  { OLDTOC,
    <<BACKTICK, BACKTICK, BACKTICK, NL>>,
    <<"#", " ", "X", NL>>,
    <<"#", " ", "#", "X", NL>>,
    <<"#", "#", " ", "A", NL>>,
    <<"#", "#", "#", " ", "B", " ", "b", NL>>,
    <<"#", "#", "#", "#", "#", "#", " ", "D", NL>>,
    <<"#", "#", "#", "#", "#", "#", "#", " ", "D", NL>>,
    <<"#", "#", " ", "!", "_", "_", NL>>,
    <<"#", "#", " ", "O">> }

Docs == {<<>>} \cup {t \o join(ls) : t \in TitlePool, ls \in Str(MaxLines, LinePool)}

Alphabet == {"a", "B", " ", "-", "_", BACKTICK, "!", IDOT}

LabelDocs == {TITLE1 \o <<"#", "#", " ">> \o l \o <<NL>> : l \in Str(MaxLabelLen, Alphabet)}

DocPool ==
  { <<>>,
    <<"T", NL>>,
    TITLE1,
    TITLE1 \o <<"#", "#", "#", " ", "B", NL>> \o <<"#", "#", " ", "A", NL>>,
    TITLE1 \o <<"#", "#", " ", "A", NL>>,
    TITLE1 \o OLDTOC \o <<"#", "#", " ", "A", NL>> \o <<"#", "#", "#", " ", "B", NL>>,
    TITLE1 \o <<"#", "#", " ", "!", "_", "_", NL>> }

\* run() over a directory of up to two selected files
Init == \E S \in SUBSET Names : \E fs \in [S -> DocPool] : InitWith(fs)

Spec == Init /\ [][Next]_vars

\* run() over one document built from the line pool
InitDoc == \E d \in Docs : InitWith([f \in {"a.md"} |-> d])

SpecDoc == InitDoc /\ [][Next]_vars

\* run() over one document with one heading, every label over the alphabet
InitAnchor == \E d \in LabelDocs : InitWith([f \in {"a.md"} |-> d])

SpecAnchor == InitAnchor /\ [][Next]_vars

-----------------------------------------------------------------------------
(* Vocabulary of the properties, read off the markdown text alone *)

\* the length of the run of "#" a line starts with
RECURSIVE LeadingHashes(_)
LeadingHashes(line) ==
  IF line # <<>> /\ Head(line) = "#" THEN 1 + LeadingHashes(Tail(line)) ELSE 0

IsFenceLine(line) ==
  Len(line) >= 3 /\ line[1] = BACKTICK /\ line[2] = BACKTICK /\ line[3] = BACKTICK

\* line k (0-based) lies after an odd number of fence lines among lines 1..k-1
InsideBlock(lines, k) ==
  /\ ~IsFenceLine(lines[k + 1])
  /\ Cardinality({j \in 1..(k - 1) : IsFenceLine(lines[j + 1])}) % 2 = 1

CountNL(s) == Cardinality({i \in 1..Len(s) : s[i] = NL})

\* the document a call of generate_toc read, and the one it left
Validated == call.locals.first_header_index >= 0

Updated == call.result = "updated"

ReadLines == splitlines(before[call.filename])

-----------------------------------------------------------------------------
(* C3 *)

\* C3: in a validated document no fence line and no line lying inside a fenced
\* code block (after an odd number of fence lines, counted from line 1) gives a
\* TOC entry, and the TOC text has exactly one line per emitted entry.
C3_CodeBlockExclusion ==
  Validated =>
    /\ \A n \in 1..Len(call.locals.headings) :
         LET k == call.locals.headings[n].index IN
           /\ ~IsFenceLine(ReadLines[k + 1])
           /\ ~InsideBlock(ReadLines, k)
    /\ CountNL(call.locals.toc_str) = Len(call.locals.headings)

\* a heading-like line of level 2..6 between an opening and a closing fence of
\* a document that was rewritten
C3_Witness ==
  /\ Updated
  /\ \E k \in 1..(Len(ReadLines) - 1) :
       /\ LeadingHashes(ReadLines[k + 1]) \in 2..6
       /\ InsideBlock(ReadLines, k)
       /\ \E j \in (k + 1)..(Len(ReadLines) - 1) : IsFenceLine(ReadLines[j + 1])

-----------------------------------------------------------------------------
(* C7 *)

\* the first line after line 0 that starts with exactly two "#"
FirstLevel2(lines) ==
  CHOOSE b \in 1..(Len(lines) - 1) :
    /\ LeadingHashes(lines[b + 1]) = 2
    /\ \A j \in 1..(b - 1) : LeadingHashes(lines[j + 1]) # 2

\* C7: when generate_toc rewrites a document whose boundary (the first level-2
\* heading line) has index b, the file then holds exactly line 0, the generated
\* TOC text, one blank line and the lines b..end of the document it read, in
\* that order and with nothing after them.
C7_InjectorFrame ==
  Updated =>
    LET b == call.locals.first_header_index IN
      /\ b = FirstLevel2(ReadLines)
      /\ files[call.filename] =
           ReadLines[1] \o call.locals.toc_str \o <<NL>>
             \o join(SubSeq(ReadLines, b + 1, Len(ReadLines)))

\* a rewrite that drops lines 1..b-1 and leaves the file shorter than it was
C7_Witness ==
  /\ Updated
  /\ call.locals.first_header_index >= 2
  /\ call.locals.toc_str # <<>>
  /\ Len(files[call.filename]) < Len(before[call.filename])

-----------------------------------------------------------------------------
(* C4 *)

PlainLabel(label) == \A i \in 1..Len(label) : isalnum(label[i]) \/ label[i] = " "

\* every character lowercased, every space replaced by "-"
PlainSlug(label) ==
  join([i \in 1..Len(label) |-> IF label[i] = " " THEN <<"-">> ELSE lower(label[i])])

\* C4 as stated: the anchor of a label of alphanumeric characters and spaces
\* has the label's length and is the label lowercased with "-" for each space.
C4_PlainAnchorSameLength ==
  \A n \in 1..Len(call.locals.headings) :
    LET h == call.locals.headings[n] IN
      PlainLabel(h.label) =>
        /\ Len(h.anchor) = Len(h.label)
        /\ h.anchor = PlainSlug(h.label)

\* C4 (amended): the anchor of a label of alphanumeric characters and spaces is
\* the label with every character lowercased and every space replaced by "-";
\* it has the label's length when the label holds no U+0130, whose lowercase is
\* two code points.
C4_PlainAnchor ==
  \A n \in 1..Len(call.locals.headings) :
    LET h == call.locals.headings[n] IN
      PlainLabel(h.label) =>
        /\ h.anchor = PlainSlug(h.label)
        /\ (\A i \in 1..Len(h.label) : h.label[i] # IDOT) => Len(h.anchor) = Len(h.label)

\* a plain label with an upper-case letter and an inner space got its anchor
C4_Witness ==
  /\ Updated
  /\ \E n \in 1..Len(call.locals.headings) :
       LET h == call.locals.headings[n] IN
         /\ PlainLabel(h.label)
         /\ \E i, j \in 1..Len(h.label) : h.label[i] = " " /\ h.label[j] = "B"

-----------------------------------------------------------------------------
(* C1 *)

\* the document starts with a level-1 heading and its first level-2 heading
\* follows with no line starting with "#" in between
TitleThenLevel2(lines) ==
  /\ Len(lines) >= 2
  /\ LeadingHashes(lines[1]) = 1
  /\ \E b \in 1..(Len(lines) - 1) :
       /\ LeadingHashes(lines[b + 1]) = 2
       /\ \A j \in 1..(b - 1) : LeadingHashes(lines[j + 1]) = 0

\* C1: for a document that starts with a level-1 heading followed, with no
\* heading line in between, by a level-2 heading, the second run of
\* generate_toc leaves the file exactly as the first run left it.
C1_Idempotent ==
  \A f \in DOMAIN files :
    (runs >= 2 /\ outcome[f] # "none" /\ TitleThenLevel2(splitlines(orig[f])))
      => files[f] = before[f]

-----------------------------------------------------------------------------
(* C2 *)

\* C2: a run changes a file only if the document it found (a) has exactly one
\* leading "#" on its first line, (b) has a level-2 heading and (c) has no line
\* starting with "#" between the first line and the first level-2 heading.
C2_ModificationGuard ==
  \A f \in DOMAIN files :
    files[f] # before[f] => TitleThenLevel2(splitlines(before[f]))

-----------------------------------------------------------------------------
(* C5 *)

OutsideCode(label, i) ==
  Cardinality({j \in 1..(i - 1) : label[j] = BACKTICK}) % 2 = 0

OutsideUnderscores(label) ==
  {i \in 1..Len(label) : label[i] = "_" /\ OutsideCode(label, i)}

\* of the underscores outside code spans only an odd last one is kept
KeptUnderscore(label, i) ==
  \/ ~OutsideCode(label, i)
  \/ /\ Cardinality(OutsideUnderscores(label)) % 2 = 1
     /\ \A j \in OutsideUnderscores(label) : j <= i

PairedSlug(label) ==
  join([i \in 1..Len(label) |->
          IF label[i] = " " \/ label[i] = "-" THEN <<"-">>
          ELSE IF label[i] = "_" THEN (IF KeptUnderscore(label, i) THEN <<"_">> ELSE <<>>)
          ELSE IF isalnum(label[i]) THEN lower(label[i])
          ELSE <<>>])

\* C5: the anchor of every heading label is generated (no exception) and is
\* the label's slug with the underscores inside code spans kept and those
\* outside removed in pairs, an odd last one remaining; no other character
\* is removed.
C5_UnderscoreRule ==
  Validated =>
    /\ call.result = "updated"
    /\ \A n \in 1..Len(call.locals.headings) :
         call.locals.headings[n].anchor = PairedSlug(call.locals.headings[n].label)

-----------------------------------------------------------------------------
(* C6 *)

\* C6: every TOC entry of a validated document comes from a line whose run of
\* leading "#" has length 2 to 6.
C6_HeadingLevels ==
  Validated =>
    \A n \in 1..Len(call.locals.headings) :
      LeadingHashes(ReadLines[call.locals.headings[n].index + 1]) \in 2..6

-----------------------------------------------------------------------------
(* C8 *)

\* C8: run() never ends on an uncaught exception, and at "Done!" every
\* selected document has been rewritten or skipped with a warning.
C8_RunToCompletion ==
  /\ pc # "crashed"
  /\ pc = "done" =>
       \A f \in DOMAIN files :
         outcome[f] \in {"updated", "no_header", "another_header", "no_lvl2"}

-----------------------------------------------------------------------------
(* C9 *)

Spaces(n) == [i \in 1..n |-> " "]

\* the TOC line of the line at index k: 4 x (L - 2) spaces, "* [label](#anchor)"
ExpectedEntry(line, anchor) ==
  Spaces(4 * (LeadingHashes(line) - 2))
    \o <<"*", " ", "[">> \o strip(SliceFrom(line, LeadingHashes(line)), {" ", NL})
    \o <<"]", "(", "#">> \o anchor \o <<")", NL>>

\* C9: the TOC text of a validated document is, in document order, one line
\* per emitted heading: 4 x (L - 2) spaces for a run of L leading "#", then
\* "* [label](#anchor)" and a newline.
C9_EntryShape ==
  Updated =>
    call.locals.toc_str =
      join([n \in 1..Len(call.locals.headings) |->
              ExpectedEntry(ReadLines[call.locals.headings[n].index + 1],
                            call.locals.headings[n].anchor)])

-----------------------------------------------------------------------------
(* C10 *)

\* C10: the validator never takes a line inside a fenced code block for a
\* heading: neither the boundary it returns nor the line that makes it skip
\* the document with "another header" lies inside a code block.
C10_ValidatorCodeBlocks ==
  /\ Validated => ~InsideBlock(ReadLines, call.locals.first_header_index)
  /\ call.result = "another_header" =>
       \E k \in 1..(Len(ReadLines) - 1) :
         /\ LeadingHashes(ReadLines[k + 1]) > 0
         /\ \A j \in 1..(k - 1) : LeadingHashes(ReadLines[j + 1]) = 0
         /\ ~InsideBlock(ReadLines, k)

====
